---------------------------- MODULE Spec2Model ----------------------------
(***************************************************************************)
(* mikrotik-dns-sync: DNS static entries of several routers are fetched,   *)
(* a strategy computes for every router the entries it has to be given     *)
(* (its pending updates), and the pending updates are optionally applied.  *)
(*                                                                         *)
(* Strings are sequences of byte codes, so that DnsEntry.__hash__ (a CRC32 *)
(* over the concatenated keys and values) is computed, not assumed.        *)
(***************************************************************************)
EXTENDS Integers, Sequences, FiniteSets

(***************************************************************************)
(* Bounds of the model.                                                    *)
(***************************************************************************)
\* The configuration names at most this many routers.
MaxDevices == 3

(***************************************************************************)
(* 32-bit words, as a pair << high 16 bits, low 16 bits >>.                *)
(***************************************************************************)
RECURSIVE Xor16(_, _)
Xor16(a, b) ==
    IF a = 0 THEN b
    ELSE IF b = 0 THEN a
    ELSE ((a + b) % 2) + 2 * Xor16(a \div 2, b \div 2)

Xor(a, b) == << Xor16(a[1], b[1]), Xor16(a[2], b[2]) >>

Shr1(a) == << a[1] \div 2, (a[2] \div 2) + (a[1] % 2) * 32768 >>

\* 0xFFFFFFFF
AllOnes == << 65535, 65535 >>

\* 0xEDB88320, the reflected CRC-32 polynomial used by zlib / binascii.
Crc32Poly == << 60856, 33568 >>

\* One bit of the checksum loop, n times.  (The test on d only makes TLC
\* evaluate d before it descends; a word is never negative.)
RECURSIVE Crc32Shift(_, _)
Crc32Shift(c, n) ==
    IF n = 0 THEN c
    ELSE LET d == IF c[2] % 2 = 1 THEN Xor(Shr1(c), Crc32Poly) ELSE Shr1(c)
         IN  IF d[1] < 0 THEN d ELSE Crc32Shift(d, n - 1)

\* The checksum register after the bytes from position k on.
RECURSIVE Crc32Update(_, _, _)
Crc32Update(c, bytes, k) ==
    IF k > Len(bytes) THEN c
    ELSE LET d == Crc32Shift(Xor(c, << 0, bytes[k] >>), 8)
         IN  IF d[1] < 0 THEN d ELSE Crc32Update(d, bytes, k + 1)

\* binascii.crc32(bytes): the checksum, as << high, low >>.
Crc32(bytes) == Xor(Crc32Update(AllOnes, bytes, 1), AllOnes)

(***************************************************************************)
(* DnsEntry: _body maps some of the keys to a value.                       *)
(***************************************************************************)
\* self._keys, in order.
Keys == << "address", "name", "regexp", "disabled" >>

\* The UTF-8 bytes of each key.
KeyBytes ==
    [address  |-> << 97, 100, 100, 114, 101, 115, 115 >>,
     name     |-> << 110, 97, 109, 101 >>,
     regexp   |-> << 114, 101, 103, 101, 120, 112 >>,
     disabled |-> << 100, 105, 115, 97, 98, 108, 101, 100 >>]

\* "a", "yes", "b" and "adisabledyes" as bytes.
ValA == << 97 >>
ValYes == << 121, 101, 115 >>
ValB == << 98 >>
ValADisabledYes == ValA \o KeyBytes["disabled"] \o ValYes

\* add name=a disabled=yes
EntryX == [name |-> ValA, disabled |-> ValYes]
\* add name=adisabledyes     (hashes the same text as EntryX: "nameadisabledyes")
EntryY == [name |-> ValADisabledYes]
\* add name=b
EntryZ == [name |-> ValB]

\* The entries a router's table is made of in this model.
EntryUniverse == {EntryX, EntryY, EntryZ}

Has(e, key) == key \in DOMAIN e

\* An __eq__ that compares only the keys both entries have.
DnsEntryEqPresentOnly(a, b) ==
    \A k \in 1..Len(Keys) :
        LET key == Keys[k] IN
        (Has(a, key) /\ Has(b, key)) => a[key] = b[key]

\* DnsEntry.__eq__
DnsEntryEq(a, b) ==
    \A k \in 1..Len(Keys) :
        LET key == Keys[k] IN
        /\ ~ ((Has(a, key) /\ ~Has(b, key)) \/ (~Has(a, key) /\ Has(b, key)))
        /\ (Has(a, key) /\ Has(b, key)) => a[key] = b[key]

\* full_temp of DnsEntry.__hash__: key and value of each present key, in order.
RECURSIVE FullTemp(_, _)
FullTemp(e, k) ==
    IF k > Len(Keys) THEN << >>
    ELSE (IF Has(e, Keys[k]) THEN KeyBytes[Keys[k]] \o e[Keys[k]] ELSE << >>)
         \o FullTemp(e, k + 1)

\* The values of the entries compared and hashed on their own: the empty
\* string (a line's "name=") and another.
Values == {<< >>, ValA}

\* Every _body over the keys, each key absent or present with one of the
\* values, and the entries of the routers.
BodyUniverse ==
    UNION {[ks -> Values] : ks \in SUBSET {Keys[k] : k \in 1..Len(Keys)}}
        \cup EntryUniverse

\* DnsEntry.__hash__ of the entries of the routers.
HashTable == [e \in EntryUniverse |-> Crc32(FullTemp(e, 1))]

DnsEntryHash(e) == HashTable[e]

(***************************************************************************)
(* Python sets of DnsEntry: membership is decided by __hash__, then __eq__.*)
(***************************************************************************)
\* entry in s
Contains(s, e) ==
    \E x \in s : DnsEntryHash(x) = DnsEntryHash(e) /\ DnsEntryEq(x, e)

\* A difference that compares hashes only.
DifferenceByHash(a, b) ==
    {e \in a : \A x \in b : DnsEntryHash(x) # DnsEntryHash(e)}

\* a.difference(b)
Difference(a, b) == {e \in a : ~Contains(b, e)}

\* An assignment where the code updates: what was pending is lost.
UpdateOverwrites(s, diff) == diff

\* s.update(diff)
Update(s, diff) == s \cup {e \in diff : ~Contains(s, e)}

(***************************************************************************)
(* The state of one run of main().                                         *)
(***************************************************************************)
VARIABLES
    args_strategy,  \* args.strategy
    args_apply,     \* args.apply_pending
    routers,        \* yaml_config["routers"]: each router's host and master flag
    table,          \* for each router contacted, the DNS static entries it holds
    dns_devices,    \* DnsManager._dns_devices: a list of DnsDevice
    voted_entries,  \* Authoritative.analyze: the dict _collect_votes returned
    exit_status,    \* Mikrotik.run_command: the exit status of the last command
    pc,             \* where main() is
    error,          \* the message of the exception that ended the run, or ""
    apply_i,        \* Strategy.apply: the device the loop is at
    apply_done,     \* Mikrotik.add_missing_entries: the entries already iterated
    apply_calls,    \* how many times DnsManager.apply_pending was entered
    added,          \* for each router and entry, the add commands it carried out
    call_pc,        \* where a call of one method on its own is ("off" in main())
    self_body,      \* DnsEntry.__eq__, __hash__: self._body
    other_body,     \* DnsEntry.__eq__: other._body
    eq_ret,         \* << what self.__eq__(other) returned >>
    hash_ret,       \* << self.__hash__(), other.__hash__() >>
    line,           \* DnsEntry.init_from_line: the line
    with_add,       \* DnsEntry.to_command: whether cmd starts with "add "
    parsed,         \* << the _body init_from_line(line) gave a new entry >>
    cmd,            \* << what to_command() of that entry returned >>
    reparsed,       \* << the _body init_from_line(cmd) gave a new entry >>
    entry_votes,    \* VotedEntry._votes
    entry_voters,   \* VotedEntry._total_voters
    verdict         \* << get_percent(), what analyze did with the entry >>

\* The variables of a run of main().
main_vars == << args_strategy, args_apply, routers, table, dns_devices,
                voted_entries, exit_status, pc, error,
                apply_i, apply_done, apply_calls, added >>

\* The variables of a call of one method on its own.
call_vars == << call_pc, self_body, other_body, eq_ret, hash_ret,
                line, with_add, parsed, cmd, reparsed,
                entry_votes, entry_voters, verdict >>

vars == << main_vars, call_vars >>

\* No method is called on its own.
NoCall ==
    /\ call_pc = "off"
    /\ self_body = << >>
    /\ other_body = << >>
    /\ eq_ret = << >>
    /\ hash_ret = << >>
    /\ line = << >>
    /\ with_add = FALSE
    /\ parsed = << >>
    /\ cmd = << >>
    /\ reparsed = << >>
    /\ entry_votes = 0
    /\ entry_voters = 0
    /\ verdict = << >>

\* Strategy.name() of the four strategies of main().
StrategyNames ==
    {"master-propagation-only-new", "master-full-mirror", "exchange",
     "authoritative"}

NumRouters == Len(routers)

NoneAdded == [e \in EntryUniverse |-> 0]

\* Hosts are only compared with each other, so they are numbered in the order
\* in which the configuration first names them; two routers may have the same
\* host (and different ports).
HostsInOrder(r) ==
    \A k \in DOMAIN r :
        \/ \E j \in 1..(k - 1) : r[j].host = r[k].host
        \/ r[k].host = 1 + Cardinality({r[j].host : j \in 1..(k - 1)})

Init ==
    /\ args_strategy \in StrategyNames \cup {"no-such-strategy"}
    /\ args_apply \in BOOLEAN
    /\ \E n \in 0..MaxDevices :
          /\ routers \in {r \in [1..n -> [master : BOOLEAN, host : 1..n]] :
                             HostsInOrder(r)}
          /\ added = [k \in 1..n |-> NoneAdded]
    /\ table = << >>
    /\ dns_devices = << >>
    /\ voted_entries = << >>
    /\ exit_status = 0
    /\ pc = "parse_args"
    /\ error = ""
    /\ apply_i = 0
    /\ apply_done = {}
    /\ apply_calls = 0
    /\ NoCall

(***************************************************************************)
(* main(): the strategy is looked up by name; parser.error ends the run.   *)
(***************************************************************************)
ChooseStrategy ==
    /\ pc = "parse_args"
    /\ IF args_strategy \in StrategyNames
       THEN /\ pc' = IF NumRouters = 0 THEN "analyze" ELSE "add_router"
            /\ error' = error
       ELSE /\ pc' = "usage_error"
            /\ error' = "Unknown strategy"
    /\ UNCHANGED << args_strategy, args_apply, routers, table, dns_devices,
                    voted_entries, exit_status,
                    apply_i, apply_done, apply_calls, added >>
    /\ UNCHANGED call_vars

(***************************************************************************)
(* DnsManager.add_router: DnsDevice.__init__ fetches the router's entries  *)
(* (Mikrotik.get_dns_static); run_command raises when the command fails.   *)
(* The entries the router answers with are the input of the step.          *)
(***************************************************************************)
DnsDevice(k, entries) ==
    [host |-> routers[k].host, master |-> routers[k].master,
     dns_static |-> entries, pending |-> {}]

AddRouter ==
    /\ pc = "add_router"
    /\ LET k == Len(dns_devices) + 1 IN
          /\ \E entries \in SUBSET EntryUniverse :
                /\ table' = Append(table, entries)
                /\ dns_devices' = Append(dns_devices, DnsDevice(k, entries))
          /\ pc' = IF k = NumRouters THEN "analyze" ELSE "add_router"
    /\ exit_status' = 0
    /\ UNCHANGED << args_strategy, args_apply, routers, voted_entries, error,
                    apply_i, apply_done, apply_calls, added >>
    /\ UNCHANGED call_vars

AddRouterFails ==
    /\ pc = "add_router"
    /\ exit_status' = 1
    /\ pc' = "crashed"
    /\ error' = "Error running command"
    /\ UNCHANGED << args_strategy, args_apply, routers, table, dns_devices,
                    voted_entries, apply_i, apply_done, apply_calls, added >>
    /\ UNCHANGED call_vars

(***************************************************************************)
(* main() after analyze(): apply_pending() when the flag is set.           *)
(***************************************************************************)
\* A main() that applies whether or not --apply-pending was given.
AfterAnalyzeAlwaysApplies == "apply_pending"

AfterAnalyze == IF args_apply THEN "apply_pending" ELSE "finish"

(***************************************************************************)
(* find_master: the index of the only master, or the exception raised.     *)
(***************************************************************************)
RECURSIVE FindMasterFrom(_, _, _)
FindMasterFrom(devs, k, master) ==
    IF k > Len(devs)
    THEN IF master = 0
         THEN [raised |-> "Cannot find master router", master |-> 0]
         ELSE [raised |-> "", master |-> master]
    ELSE IF devs[k].master
         THEN IF master # 0
              THEN [raised |-> "Cannot have several masters", master |-> 0]
              ELSE FindMasterFrom(devs, k + 1, k)
         ELSE FindMasterFrom(devs, k + 1, master)

\* A find_master that returns the first master it meets, or the first device.
find_master_first(devs) ==
    IF \E k \in 1..Len(devs) : devs[k].master
    THEN [raised |-> "",
          master |-> CHOOSE k \in 1..Len(devs) :
                        /\ devs[k].master
                        /\ \A j \in 1..(k - 1) : ~devs[j].master]
    ELSE IF Len(devs) > 0
         THEN [raised |-> "", master |-> 1]
         ELSE [raised |-> "Cannot find master router", master |-> 0]

find_master(devs) == FindMasterFrom(devs, 1, 0)

(***************************************************************************)
(* MasterPropagationOnlyNew.analyze                                        *)
(***************************************************************************)
\* An analyze with the difference taken the wrong way round.
OnlyNewAnalyzeReversed(devs, master) ==
    [k \in 1..Len(devs) |->
        IF devs[k].master
        THEN devs[k]
        ELSE [devs[k] EXCEPT !.pending =
                 Update(@, {e \in devs[k].dns_static :
                               e \notin devs[master].dns_static})]]

OnlyNewAnalyze(devs, master) ==
    [k \in 1..Len(devs) |->
        IF devs[k].master
        THEN devs[k]
        ELSE [devs[k] EXCEPT !.pending =
                 Update(@, Difference(devs[master].dns_static,
                                      devs[k].dns_static))]]

AnalyzeOnlyNew ==
    /\ pc = "analyze"
    /\ args_strategy = "master-propagation-only-new"
    /\ LET found == find_master(dns_devices) IN
          IF found.raised # ""
          THEN /\ pc' = "crashed"
               /\ error' = found.raised
               /\ dns_devices' = dns_devices
          ELSE /\ pc' = AfterAnalyze
               /\ error' = error
               /\ dns_devices' = OnlyNewAnalyze(dns_devices, found.master)
    /\ UNCHANGED << args_strategy, args_apply, routers, table,
                    voted_entries, exit_status,
                    apply_i, apply_done, apply_calls, added >>
    /\ UNCHANGED call_vars

(***************************************************************************)
(* MasterFullMirror.analyze                                                *)
(***************************************************************************)
FullMirrorAnalyze(devs, master) ==
    [k \in 1..Len(devs) |->
        IF devs[k].master
        THEN devs[k]
        ELSE [devs[k] EXCEPT !.pending =
                 Update(@, Difference(devs[master].dns_static,
                                      devs[k].dns_static))]]

AnalyzeFullMirror ==
    /\ pc = "analyze"
    /\ args_strategy = "master-full-mirror"
    /\ LET found == find_master(dns_devices) IN
          IF found.raised # ""
          THEN /\ pc' = "crashed"
               /\ error' = found.raised
               /\ dns_devices' = dns_devices
          ELSE /\ pc' = AfterAnalyze
               /\ error' = error
               /\ dns_devices' = FullMirrorAnalyze(dns_devices, found.master)
    /\ UNCHANGED << args_strategy, args_apply, routers, table,
                    voted_entries, exit_status,
                    apply_i, apply_done, apply_calls, added >>
    /\ UNCHANGED call_vars

(***************************************************************************)
(* Exchange.analyze: the two loops over the device list, and for each pair *)
(* of devices with different hosts the two differences.                    *)
(***************************************************************************)
ExchangePair(devs, first, second) ==
    IF devs[first].host = devs[second].host
    THEN devs
    ELSE LET d1 == [devs EXCEPT ![second].pending =
                       Update(@, Difference(devs[first].dns_static,
                                            devs[second].dns_static))]
         IN  [d1 EXCEPT ![first].pending =
                 Update(@, Difference(d1[second].dns_static,
                                      d1[first].dns_static))]

RECURSIVE ExchangeFrom(_, _, _)
ExchangeFrom(devs, first, second) ==
    IF first > Len(devs) THEN devs
    ELSE IF second > Len(devs) THEN ExchangeFrom(devs, first + 1, 1)
    ELSE ExchangeFrom(ExchangePair(devs, first, second), first, second + 1)

ExchangeAnalyze(devs) == ExchangeFrom(devs, 1, 1)

AnalyzeExchange ==
    /\ pc = "analyze"
    /\ args_strategy = "exchange"
    /\ dns_devices' = ExchangeAnalyze(dns_devices)
    /\ pc' = AfterAnalyze
    /\ UNCHANGED << args_strategy, args_apply, routers, table, error,
                    voted_entries, exit_status,
                    apply_i, apply_done, apply_calls, added >>
    /\ UNCHANGED call_vars

(***************************************************************************)
(* VotedEntry and Authoritative.                                           *)
(***************************************************************************)
\* VotedEntry.get_percent: round(votes * 100 / total_voters, 2), in hundredths
\* of a percent.  round() takes the nearest value, and the even one of two
\* equally near.
get_percent(v) ==
    LET num == v.votes * 10000
        q == num \div v.total_voters
        r == num % v.total_voters
    IN  IF 2 * r < v.total_voters THEN q
        ELSE IF 2 * r > v.total_voters THEN q + 1
        ELSE IF q % 2 = 0 THEN q ELSE q + 1

\* The records of device d with hash h.
RecordsWithHash(d, h) == {r \in d.dns_static : DnsEntryHash(r) = h}

HashesOf(d) == {DnsEntryHash(r) : r \in d.dns_static}

\* The first device of the list that holds a record with hash h.
FirstHolder(devs, h) ==
    CHOOSE k \in 1..Len(devs) :
        /\ RecordsWithHash(devs[k], h) # {}
        /\ \A j \in 1..(k - 1) : RecordsWithHash(devs[j], h) = {}

\* What the iteration order of the sets can make the first record seen with
\* each hash: one of the records with that hash of the first device holding one.
FirstSeen(devs) ==
    LET hs == UNION {HashesOf(devs[k]) : k \in 1..Len(devs)} IN
    {first \in [hs -> EntryUniverse] :
        \A h \in hs : first[h] \in RecordsWithHash(devs[FirstHolder(devs, h)], h)}

\* The inner loop of _collect_votes over one device: every record whose hash is
\* already a key votes; the first record with a new hash becomes the VotedEntry
\* of that key, with one vote.
CollectDevice(voted, d, total_voters, first) ==
    [h \in (DOMAIN voted) \cup HashesOf(d) |->
        IF h \in DOMAIN voted
        THEN [voted[h] EXCEPT
                 !.votes = @ + Cardinality(RecordsWithHash(d, h))]
        ELSE [entry |-> first[h], total_voters |-> total_voters,
              votes |-> 1 + (Cardinality(RecordsWithHash(d, h)) - 1)]]

RECURSIVE CollectFrom(_, _, _, _)
CollectFrom(voted, devs, k, first) ==
    IF k > Len(devs) THEN voted
    ELSE CollectFrom(CollectDevice(voted, devs[k], Len(devs), first),
                     devs, k + 1, first)

\* Authoritative._collect_votes: the dict from hash to VotedEntry.
collect_votes(devs, first) == CollectFrom(<< >>, devs, 1, first)

\* The keys analyze does not skip and approves.
Approved(voted) ==
    {h \in DOMAIN voted :
        /\ get_percent(voted[h]) # 10000
        /\ get_percent(voted[h]) >= 5000}

\* Authoritative.analyze, given the dict of votes: every device is given the
\* approved entries its fetched entries do not contain (the calls of
\* append_pending_updates, one entry each, amount to one update).
AuthoritativeAnalyze(devs, voted) ==
    [k \in 1..Len(devs) |->
        [devs[k] EXCEPT !.pending =
            Update(@, {voted[h].entry : h \in
                         {a \in Approved(voted) :
                             ~Contains(devs[k].dns_static, voted[a].entry)}})]]

AnalyzeAuthoritative ==
    /\ pc = "analyze"
    /\ args_strategy = "authoritative"
    /\ \E first \in FirstSeen(dns_devices) :
          /\ voted_entries' = collect_votes(dns_devices, first)
          /\ dns_devices' = AuthoritativeAnalyze(dns_devices, voted_entries')
    /\ pc' = AfterAnalyze
    /\ UNCHANGED << args_strategy, args_apply, routers, table, error,
                    exit_status, apply_i, apply_done, apply_calls, added >>
    /\ UNCHANGED call_vars

(***************************************************************************)
(* DnsManager.apply_pending -> Strategy.apply: for every device, in list   *)
(* order, Mikrotik.add_missing_entries runs one add command for every      *)
(* pending entry, in the iteration order of the set.  run_command raises   *)
(* when the command's exit status is not 0, and nothing catches it.        *)
(***************************************************************************)
\* Where the two loops stand next: at device i with the entries done iterated,
\* or, when add_missing_entries has no entry left there, at the next device
\* that has one; [i |-> 0] when apply returns.
RECURSIVE NextAdd(_, _, _)
NextAdd(devs, i, done) ==
    IF i > Len(devs) THEN [i |-> 0, done |-> {}]
    ELSE IF devs[i].pending \ done = {} THEN NextAdd(devs, i + 1, {})
    ELSE [i |-> i, done |-> done]

ApplyPending ==
    /\ pc = "apply_pending"
    /\ apply_calls' = apply_calls + 1
    /\ LET next == NextAdd(dns_devices, 1, {}) IN
          /\ apply_i' = next.i
          /\ apply_done' = next.done
          /\ pc' = IF next.i = 0 THEN "finish" ELSE "applying"
    /\ UNCHANGED << args_strategy, args_apply, routers, table, dns_devices,
                    voted_entries, exit_status, error, added >>
    /\ UNCHANGED call_vars

\* An add command after which the entry is taken off the pending set.
AddDnsStaticEntryConsumes ==
    /\ pc = "applying"
    /\ \E e \in dns_devices[apply_i].pending \ apply_done :
          /\ added' = [added EXCEPT ![apply_i][e] = @ + 1]
          /\ table' = [table EXCEPT ![apply_i] = @ \cup {e}]
          /\ dns_devices' = [dns_devices EXCEPT ![apply_i].pending = @ \ {e}]
          /\ LET next == NextAdd(dns_devices', apply_i, apply_done) IN
                /\ apply_i' = next.i
                /\ apply_done' = next.done
                /\ pc' = IF next.i = 0 THEN "finish" ELSE "applying"
    /\ exit_status' = 0
    /\ UNCHANGED << args_strategy, args_apply, routers,
                    voted_entries, error, apply_calls >>
    /\ UNCHANGED call_vars

\* One add command, which the router carries out ("Add OK").
AddDnsStaticEntry ==
    /\ pc = "applying"
    /\ \E e \in dns_devices[apply_i].pending \ apply_done :
          /\ added' = [added EXCEPT ![apply_i][e] = @ + 1]
          /\ table' = [table EXCEPT ![apply_i] = @ \cup {e}]
          /\ LET next == NextAdd(dns_devices, apply_i, apply_done \cup {e}) IN
                /\ apply_i' = next.i
                /\ apply_done' = next.done
                /\ pc' = IF next.i = 0 THEN "finish" ELSE "applying"
    /\ exit_status' = 0
    /\ UNCHANGED << args_strategy, args_apply, routers, dns_devices,
                    voted_entries, error, apply_calls >>
    /\ UNCHANGED call_vars

\* A failed add command that is skipped: the loop goes on.
AddDnsStaticEntrySwallowed ==
    /\ pc = "applying"
    /\ \E e \in dns_devices[apply_i].pending \ apply_done :
          LET next == NextAdd(dns_devices, apply_i, apply_done \cup {e}) IN
             /\ apply_i' = next.i
             /\ apply_done' = next.done
             /\ pc' = IF next.i = 0 THEN "finish" ELSE "applying"
    /\ exit_status' = 1
    /\ UNCHANGED << args_strategy, args_apply, routers, table, dns_devices,
                    voted_entries, error, apply_calls, added >>
    /\ UNCHANGED call_vars

\* One add command, which fails: the exception ends the run.
AddDnsStaticEntryFails ==
    /\ pc = "applying"
    /\ dns_devices[apply_i].pending \ apply_done # {}
    /\ exit_status' = 1
    /\ pc' = "crashed"
    /\ error' = "Error running command"
    /\ UNCHANGED << args_strategy, args_apply, routers, table, dns_devices,
                    voted_entries, apply_i, apply_done, apply_calls, added >>
    /\ UNCHANGED call_vars

\* apply_pending is a method of DnsManager: main() calls it once; a caller of
\* DnsManager may call it again on the same devices.
ApplyPendingAgain ==
    /\ pc = "finish"
    /\ apply_calls = 1
    /\ pc' = "apply_pending"
    /\ UNCHANGED << args_strategy, args_apply, routers, table, dns_devices,
                    voted_entries, exit_status, error,
                    apply_i, apply_done, apply_calls, added >>
    /\ UNCHANGED call_vars

Next ==
    \/ ChooseStrategy
    \/ AddRouter
    \/ AddRouterFails
    \/ AnalyzeOnlyNew
    \/ AnalyzeFullMirror
    \/ AnalyzeExchange
    \/ AnalyzeAuthoritative
    \/ ApplyPending
    \/ AddDnsStaticEntry
    \/ AddDnsStaticEntryFails
    \/ ApplyPendingAgain

(***************************************************************************)
(* The runs of main().  Each kind of strategy reads only a part of the     *)
(* configuration: find_master reads the master flags, Exchange.analyze the *)
(* hosts, Authoritative.analyze neither, and nothing else reads them.  The *)
(* runs of each kind vary what its code reads: the others get different    *)
(* hosts and no master flag.                                               *)
(***************************************************************************)
HostsDistinct ==
    \A j \in 1..NumRouters : \A k \in 1..NumRouters :
        j # k => routers[j].host # routers[k].host

NoMasters == \A k \in 1..NumRouters : ~routers[k].master

MasterBased == {"master-propagation-only-new", "master-full-mirror"}

InitMasterBased == Init /\ args_strategy \in MasterBased /\ HostsDistinct

InitExchange == Init /\ args_strategy = "exchange" /\ NoMasters

InitAuthoritative ==
    Init /\ args_strategy = "authoritative" /\ HostsDistinct /\ NoMasters

InitUnknown ==
    Init /\ args_strategy \notin StrategyNames /\ HostsDistinct /\ NoMasters

\* The steps of main() other than Strategy.analyze.
NextDriver ==
    \/ ChooseStrategy
    \/ AddRouter
    \/ AddRouterFails
    \/ ApplyPending
    \/ AddDnsStaticEntry
    \/ AddDnsStaticEntryFails
    \/ ApplyPendingAgain

NextMasterBased == NextDriver \/ AnalyzeOnlyNew \/ AnalyzeFullMirror

NextExchange == NextDriver \/ AnalyzeExchange

NextAuthoritative == NextDriver \/ AnalyzeAuthoritative

\* main() with --strategy naming a master-based strategy.
SpecMasterBased == InitMasterBased /\ [][NextMasterBased]_vars

\* main() with --strategy exchange.
SpecExchange == InitExchange /\ [][NextExchange]_vars

\* main() with --strategy authoritative.
SpecAuthoritative == InitAuthoritative /\ [][NextAuthoritative]_vars

\* main() with any --strategy.
InitAny ==
    InitMasterBased \/ InitExchange \/ InitAuthoritative \/ InitUnknown

Spec == InitAny /\ [][Next]_vars

(***************************************************************************)
(* Calls of one method on its own, with main() not running.                *)
(***************************************************************************)
NoMain ==
    /\ args_strategy = ""
    /\ args_apply = FALSE
    /\ routers = << >>
    /\ table = << >>
    /\ dns_devices = << >>
    /\ voted_entries = << >>
    /\ exit_status = 0
    /\ pc = "off"
    /\ error = ""
    /\ apply_i = 0
    /\ apply_done = {}
    /\ apply_calls = 0
    /\ added = << >>

(***************************************************************************)
(* DnsEntry.__eq__ and DnsEntry.__hash__ of two entries.                   *)
(***************************************************************************)
InitDnsEntry ==
    /\ NoMain
    /\ call_pc = "eq"
    /\ self_body \in BodyUniverse
    /\ other_body \in BodyUniverse
    /\ eq_ret = << >>
    /\ hash_ret = << >>
    /\ line = << >>
    /\ with_add = FALSE
    /\ parsed = << >>
    /\ cmd = << >>
    /\ reparsed = << >>
    /\ entry_votes = 0
    /\ entry_voters = 0
    /\ verdict = << >>

\* self.__eq__(other)
CallEq ==
    /\ call_pc = "eq"
    /\ eq_ret' = << DnsEntryEq(self_body, other_body) >>
    /\ call_pc' = "hash"
    /\ UNCHANGED << self_body, other_body, hash_ret, line, with_add, parsed,
                    cmd, reparsed, entry_votes, entry_voters, verdict >>
    /\ UNCHANGED main_vars

\* self.__hash__() and other.__hash__()
CallHash ==
    /\ call_pc = "hash"
    /\ hash_ret' = << Crc32(FullTemp(self_body, 1)),
                      Crc32(FullTemp(other_body, 1)) >>
    /\ call_pc' = "done"
    /\ UNCHANGED << self_body, other_body, eq_ret, line, with_add, parsed,
                    cmd, reparsed, entry_votes, entry_voters, verdict >>
    /\ UNCHANGED main_vars

NextDnsEntry == CallEq \/ CallHash

SpecDnsEntry == InitDnsEntry /\ [][NextDnsEntry]_vars

(***************************************************************************)
(* DnsEntry.init_from_line and DnsEntry.to_command, on bytes.              *)
(***************************************************************************)
MaxTokens == 3

\* " " and "=" as bytes.
SpaceSep == << 32 >>
EqualsSep == << 61 >>

\* "add", "add " and "comment" as bytes.
WordAdd == << 97, 100, 100 >>
AddPrefix == WordAdd \o SpaceSep
WordComment == << 99, 111, 109, 109, 101, 110, 116 >>

\* str.split(sep) for a separator of one character: the pieces between the
\* separators, empty pieces included; part is the piece being read.
RECURSIVE SplitFrom(_, _, _, _, _)
SplitFrom(s, sep, k, part, parts) ==
    IF k > Len(s) THEN Append(parts, part)
    ELSE IF s[k] = sep[1]
         THEN SplitFrom(s, sep, k + 1, << >>, Append(parts, part))
         ELSE SplitFrom(s, sep, k + 1, Append(part, s[k]), parts)

Split(s, sep) == SplitFrom(s, sep, 1, << >>, << >>)

\* The inner loop of init_from_line: the first key that kv[0] spells is set
\* to kv[1]  (Python's kv[0], kv[1] are kv[1], kv[2] here).
RECURSIVE SetKey(_, _, _)
SetKey(body, kv, k) ==
    IF k > Len(Keys) THEN body
    ELSE IF kv[1] = KeyBytes[Keys[k]]
         THEN [key \in (DOMAIN body) \cup {Keys[k]} |->
                  IF key = Keys[k] THEN kv[2] ELSE body[key]]
         ELSE SetKey(body, kv, k + 1)

\* The outer loop of init_from_line, from part i on.
RECURSIVE InitFromParts(_, _, _)
InitFromParts(body, parts, i) ==
    IF i > Len(parts) THEN body
    ELSE IF \A j \in 1..Len(parts[i]) : parts[i][j] # EqualsSep[1]
         THEN InitFromParts(body, parts, i + 1)
         ELSE InitFromParts(SetKey(body, Split(parts[i], EqualsSep), 1),
                            parts, i + 1)

\* DnsEntry.init_from_line on an entry whose _body is body: the new _body.
init_from_line(body, ln) == InitFromParts(body, Split(ln, SpaceSep), 1)

\* A to_command that puts no space after a value.
RECURSIVE to_command_unspaced(_, _)
to_command_unspaced(body, k) ==
    IF k > Len(Keys) THEN << >>
    ELSE (IF Has(body, Keys[k])
          THEN KeyBytes[Keys[k]] \o EqualsSep \o body[Keys[k]]
          ELSE << >>)
         \o to_command_unspaced(body, k + 1)

\* The loop of to_command from key k on: "key=value " of each present key.
RECURSIVE to_command(_, _)
to_command(body, k) ==
    IF k > Len(Keys) THEN << >>
    ELSE (IF Has(body, Keys[k])
          THEN KeyBytes[Keys[k]] \o EqualsSep \o body[Keys[k]] \o SpaceSep
          ELSE << >>)
         \o to_command(body, k + 1)

\* The tokens of the lines: a word without "=", keys with a value, with an
\* empty value, with a value that holds "=", with an empty first value, an
\* unknown key, an empty key, and the empty token (two spaces in a row).
Tokens ==
    {WordAdd,
     KeyBytes["name"] \o EqualsSep \o ValA,
     KeyBytes["name"] \o EqualsSep \o ValB,
     KeyBytes["name"] \o EqualsSep,
     KeyBytes["name"] \o EqualsSep \o ValA \o EqualsSep \o ValB,
     KeyBytes["name"] \o EqualsSep \o EqualsSep \o ValB,
     KeyBytes["address"] \o EqualsSep \o ValA,
     KeyBytes["disabled"] \o EqualsSep \o ValYes,
     WordComment \o EqualsSep \o ValA,
     EqualsSep \o ValA,
     << >>}

\* " ".join(tokens)
RECURSIVE Join(_, _)
Join(tokens, k) ==
    IF k > Len(tokens) THEN << >>
    ELSE IF k = Len(tokens) THEN tokens[k]
    ELSE tokens[k] \o SpaceSep \o Join(tokens, k + 1)

Lines ==
    {Join(tokens, 1) :
        tokens \in UNION {[1..n -> Tokens] : n \in 0..MaxTokens}}

InitRoundTrip ==
    /\ NoMain
    /\ call_pc = "parse"
    /\ line \in Lines
    /\ with_add \in BOOLEAN
    /\ parsed = << >>
    /\ cmd = << >>
    /\ reparsed = << >>
    /\ self_body = << >>
    /\ other_body = << >>
    /\ eq_ret = << >>
    /\ hash_ret = << >>
    /\ entry_votes = 0
    /\ entry_voters = 0
    /\ verdict = << >>

\* entry = DnsEntry(); entry.init_from_line(line)
ParseLine ==
    /\ call_pc = "parse"
    /\ parsed' = << init_from_line(<< >>, line) >>
    /\ call_pc' = "render"
    /\ UNCHANGED << self_body, other_body, eq_ret, hash_ret, line, with_add,
                    cmd, reparsed, entry_votes, entry_voters, verdict >>
    /\ UNCHANGED main_vars

\* entry.to_command(): cmd starts as "add " (mikrotik.py) or "" (dns_entry.py)
ToCommand ==
    /\ call_pc = "render"
    /\ cmd' = << (IF with_add THEN AddPrefix ELSE << >>)
                    \o to_command(parsed[1], 1) >>
    /\ call_pc' = "reparse"
    /\ UNCHANGED << self_body, other_body, eq_ret, hash_ret, line, with_add,
                    parsed, reparsed, entry_votes, entry_voters, verdict >>
    /\ UNCHANGED main_vars

\* again = DnsEntry(); again.init_from_line(cmd)
ParseCommand ==
    /\ call_pc = "reparse"
    /\ reparsed' = << init_from_line(<< >>, cmd[1]) >>
    /\ call_pc' = "done"
    /\ UNCHANGED << self_body, other_body, eq_ret, hash_ret, line, with_add,
                    parsed, cmd, entry_votes, entry_voters, verdict >>
    /\ UNCHANGED main_vars

NextRoundTrip == ParseLine \/ ToCommand \/ ParseCommand

SpecRoundTrip == InitRoundTrip /\ [][NextRoundTrip]_vars

(***************************************************************************)
(* One VotedEntry in the loop of Authoritative.analyze.                    *)
(***************************************************************************)
MaxVoters == 40

\* Numbers of devices around those where a hundredth of a percent is more
\* than one vote.  (None is a multiple of 32, so that votes * 100 /
\* total_voters is never halfway between two hundredths.)
LargeVoters == {9999, 10001, 19999, 20001}

InitVotedEntry ==
    /\ NoMain
    /\ call_pc = "analyze_entry"
    /\ entry_voters \in (1..MaxVoters) \cup LargeVoters
    /\ entry_votes \in 1..entry_voters
    /\ verdict = << >>
    /\ self_body = << >>
    /\ other_body = << >>
    /\ eq_ret = << >>
    /\ hash_ret = << >>
    /\ line = << >>
    /\ with_add = FALSE
    /\ parsed = << >>
    /\ cmd = << >>
    /\ reparsed = << >>

\* The body of the loop of Authoritative.analyze for one key of the dict: the
\* entry is skipped when get_percent() == 100, approved (and appended to the
\* pending updates of the devices without it) when get_percent() >= 50, and
\* declined otherwise.
AnalyzeVotedEntry ==
    /\ call_pc = "analyze_entry"
    /\ LET voted == << [entry |-> EntryZ, total_voters |-> entry_voters,
                        votes |-> entry_votes] >>
       IN  verdict' = << get_percent(voted[1]),
                         IF get_percent(voted[1]) = 10000 THEN "skipped"
                         ELSE IF 1 \in Approved(voted) THEN "approved"
                         ELSE "declined" >>
    /\ call_pc' = "done"
    /\ UNCHANGED << self_body, other_body, eq_ret, hash_ret, line, with_add,
                    parsed, cmd, reparsed, entry_votes, entry_voters >>
    /\ UNCHANGED main_vars

NextVotedEntry == AnalyzeVotedEntry

SpecVotedEntry == InitVotedEntry /\ [][NextVotedEntry]_vars

(***************************************************************************)
(* What the properties below speak of.                                     *)
(***************************************************************************)
\* Strategy.analyze has returned normally.
AnalyzeReturned ==
    \/ pc \in {"apply_pending", "applying", "finish"}
    \/ pc = "crashed" /\ apply_calls > 0

\* Strategy.analyze was called: every router was fetched and main() went on.
AnalyzeCalled ==
    /\ args_strategy \in StrategyNames
    /\ Len(dns_devices) = NumRouters
    /\ pc \notin {"parse_args", "add_router", "analyze"}

Devices == 1..Len(dns_devices)

Masters == {k \in 1..NumRouters : routers[k].master}

\* The entries some device held when it was fetched.
AllEntries == UNION {dns_devices[k].dns_static : k \in Devices}

\* The devices whose fetched entries hold e.
Holders(e) == {k \in Devices : e \in dns_devices[k].dns_static}


(***************************************************************************)
(* Properties.                                                             *)
(***************************************************************************)

\* C1: after MasterPropagationOnlyNew.analyze over a device list with exactly
\* one master, the pending set of every non-master device is the master's
\* entries minus the device's own entries, and the master's pending set is
\* empty.
C1_OnlyNewPending ==
    (/\ args_strategy = "master-propagation-only-new"
     /\ AnalyzeReturned
     /\ Cardinality(Masters) = 1)
    => \A k \in Devices :
          LET m == CHOOSE j \in Masters : TRUE IN
          IF k = m
          THEN dns_devices[k].pending = {}
          ELSE dns_devices[k].pending =
                  dns_devices[m].dns_static \ dns_devices[k].dns_static

\* A run of C1: the master holds an entry a non-master device holds too, and
\* one it lacks, which is the device's only pending entry.
C1_Witness ==
    /\ args_strategy = "master-propagation-only-new"
    /\ AnalyzeReturned
    /\ \E m \in Masters : \E k \in Devices :
          /\ k # m
          /\ dns_devices[m].dns_static = {EntryX, EntryZ}
          /\ dns_devices[k].dns_static = {EntryX}
          /\ dns_devices[k].pending = {EntryZ}
          /\ dns_devices[m].pending = {}

\* C2: analyze of a master-based strategy over a device list that has not
\* exactly one master raises - "Cannot have several masters" with more than
\* one, "Cannot find master router" with none - and no device's pending set
\* is changed.
C2_MasterCountChecked ==
    (/\ args_strategy \in MasterBased
     /\ AnalyzeCalled
     /\ Cardinality(Masters) # 1)
    => /\ pc = "crashed"
       /\ error = IF Cardinality(Masters) > 1
                  THEN "Cannot have several masters"
                  ELSE "Cannot find master router"
       /\ \A k \in Devices : dns_devices[k].pending = {}
       /\ apply_calls = 0

\* A run of C2: two masters whose entries differ, and analyze has raised.
C2_Witness ==
    /\ args_strategy \in MasterBased
    /\ AnalyzeCalled
    /\ error = "Cannot have several masters"
    /\ \E j \in Masters : \E k \in Masters :
          /\ j # k
          /\ dns_devices[j].dns_static # dns_devices[k].dns_static

\* C3: under MasterFullMirror, after analyze and an apply in which every add
\* succeeded, every non-master device holds exactly the master's entries.
C3_FullMirrorMirrors ==
    (/\ args_strategy = "master-full-mirror"
     /\ pc = "finish"
     /\ apply_calls >= 1)
    => \A m \in Masters : \A k \in Devices : table[k] = table[m]

\* C4: after Exchange.analyze over devices with distinct hosts, the pending
\* set of every device is the union of the other devices' entries minus its
\* own entries; no pending entry equals an entry the device holds.
C4_ExchangePending ==
    (/\ args_strategy = "exchange"
     /\ AnalyzeReturned
     /\ HostsDistinct)
    => \A k \in Devices :
          /\ dns_devices[k].pending =
                UNION {dns_devices[j].dns_static : j \in Devices \ {k}}
                   \ dns_devices[k].dns_static
          /\ \A e \in dns_devices[k].pending :
                \A x \in dns_devices[k].dns_static : ~DnsEntryEq(e, x)

\* A run of C4: three devices holding {X}, {Z} and nothing.
C4_Witness ==
    /\ args_strategy = "exchange"
    /\ AnalyzeReturned
    /\ HostsDistinct
    /\ Len(dns_devices) = 3
    /\ dns_devices[1].dns_static = {EntryX}
    /\ dns_devices[2].dns_static = {EntryZ}
    /\ dns_devices[3].dns_static = {}
    /\ dns_devices[1].pending = {EntryZ}
    /\ dns_devices[2].pending = {EntryX}
    /\ dns_devices[3].pending = {EntryX, EntryZ}

C6_TallyCountsHolders ==
    (/\ args_strategy = "authoritative"
     /\ AnalyzeReturned)
    => /\ \A e \in AllEntries :
             \E h \in DOMAIN voted_entries :
                /\ DnsEntryEq(voted_entries[h].entry, e)
                /\ voted_entries[h].votes = Cardinality(Holders(e))
       /\ \A h \in DOMAIN voted_entries :
             voted_entries[h].entry \in AllEntries

\* C7: after Authoritative.analyze, an entry held by at least half of the
\* devices (approval >= 50%) is pending on exactly the devices that do not
\* hold it, and an entry held by fewer is pending on no device.
C7_ThresholdDecides ==
    (/\ args_strategy = "authoritative"
     /\ AnalyzeReturned)
    => \A e \in AllEntries :
          LET approval == get_percent([entry |-> e,
                                       total_voters |-> Len(dns_devices),
                                       votes |-> Cardinality(Holders(e))])
          IN  \A k \in Devices :
                 e \in dns_devices[k].pending
                    <=> (approval >= 5000 /\ k \notin Holders(e))

\* C8: once an add command has failed, the run has ended with the exception
\* of run_command ("Error running command"), and the adds carried out before -
\* the pending entries of the devices before the failing one, and the entries
\* of the failing device the loop had passed - are on the routers.
C8_ApplyFailurePropagates ==
    (exit_status # 0 /\ apply_calls >= 1)
    => /\ pc = "crashed"
       /\ error = "Error running command"
       /\ \A k \in 1..(apply_i - 1) : dns_devices[k].pending \subseteq table[k]
       /\ apply_done \subseteq table[apply_i]

\* A run of C8: the first device was given its pending entries, the second
\* one of its two, and the add of the other failed.
C8_Witness ==
    /\ pc = "crashed"
    /\ apply_calls = 1
    /\ exit_status # 0
    /\ apply_i = 2
    /\ dns_devices[1].pending # {}
    /\ apply_done # {}
    /\ apply_done # dns_devices[2].pending
    /\ ~(apply_done \subseteq dns_devices[2].dns_static)

\* C9: when an add fails on one device, an add is still attempted for every
\* pending entry of every other device.  (Only one command of a run fails, the
\* one at device apply_i, so that on the other devices an add attempted is an
\* add carried out.)
C9_OtherDevicesStillApplied ==
    (pc = "crashed" /\ apply_calls >= 1)
    => \A k \in Devices \ {apply_i} :
          \A e \in dns_devices[k].pending : added[k][e] >= apply_calls

\* C10: apply runs one add command for every pending entry of every device and
\* changes neither the pending sets nor the fetched entries; a second apply
\* runs the same commands once more and changes nothing on the routers.
C10_ApplyKeepsPending ==
    /\ []((pc = "finish" /\ apply_calls >= 1)
            => \A k \in Devices : \A e \in EntryUniverse :
                  added[k][e] = IF e \in dns_devices[k].pending
                               THEN apply_calls ELSE 0)
    /\ [][/\ pc \in {"apply_pending", "applying", "finish"}
             => dns_devices' = dns_devices
          /\ apply_calls = 2 => table' = table]_vars

\* A run of C10: two applies are through, and some entry was added twice.
C10_Witness ==
    /\ pc = "finish"
    /\ apply_calls = 2
    /\ \E k \in Devices : \E e \in dns_devices[k].pending :
          /\ added[k][e] = 2
          /\ e \in table[k]
          /\ e \notin dns_devices[k].dns_static

\* How far main() has come: the strategy looked up, the routers fetched,
\* analyze() called, analyze() returned; a run that was ended comes last.
LifecycleStage ==
    CASE pc = "parse_args" -> 0
      [] pc = "add_router" -> 1
      [] pc = "analyze" -> 2
      [] pc \in {"apply_pending", "applying", "finish"} -> 3
      [] pc \in {"usage_error", "crashed"} -> 4

\* C11: a run goes from the lookup of the strategy to the fetch of every
\* configured router, to analyze, to apply, and never back.  A run with an
\* unknown strategy ends before any router is contacted; analyze is called
\* only when every router was fetched; pending sets are empty until analyze
\* has returned; an add command is run only after analyze has returned and
\* only when --apply-pending is set.
C11_RunLifecycleOrder ==
    /\ [](args_strategy \notin StrategyNames
            => /\ pc \in {"parse_args", "usage_error"}
               /\ table = << >>
               /\ dns_devices = << >>)
    /\ [](pc = "add_router" => Len(dns_devices) < NumRouters)
    /\ []((pc = "analyze" \/ AnalyzeReturned)
            => /\ args_strategy \in StrategyNames
               /\ Len(dns_devices) = NumRouters
               /\ Len(table) = NumRouters)
    /\ [](~AnalyzeReturned
            => /\ \A k \in Devices : dns_devices[k].pending = {}
               /\ apply_calls = 0
               /\ \A k \in 1..NumRouters : added[k] = NoneAdded)
    /\ [](~args_apply
            => /\ apply_calls = 0
               /\ pc \notin {"apply_pending", "applying"}
               /\ \A k \in 1..NumRouters : added[k] = NoneAdded)
    /\ [][/\ LifecycleStage' >= LifecycleStage
          /\ AnalyzeReturned => AnalyzeReturned'
          /\ added' # added => (args_apply /\ pc = "applying")
          /\ Len(dns_devices') > Len(dns_devices) => pc = "add_router"]_vars

\* A run of C11 through every stage: three routers fetched, analyze, and an
\* apply that ran an add command on the last router.
C11_Witness ==
    /\ pc = "finish"
    /\ args_apply
    /\ apply_calls = 1
    /\ NumRouters = MaxDevices
    /\ Len(dns_devices) = NumRouters
    /\ \E e \in EntryUniverse : added[NumRouters][e] = 1

\* C12: self.__eq__(other) returns True exactly when every key of the entry
\* is absent from both bodies or present in both with the same value, and
\* two entries that __eq__ finds equal have the same __hash__.
C12_FingerprintConsistent ==
    /\ eq_ret # << >>
          => (eq_ret[1] <=>
                \A k \in 1..Len(Keys) :
                   \/ ~Has(self_body, Keys[k]) /\ ~Has(other_body, Keys[k])
                   \/ /\ Has(self_body, Keys[k])
                      /\ Has(other_body, Keys[k])
                      /\ self_body[Keys[k]] = other_body[Keys[k]])
    /\ (hash_ret # << >> /\ eq_ret[1]) => hash_ret[1] = hash_ret[2]

\* A call of C12: two equal entries with an empty name, a disabled flag and
\* no address were compared and hashed.
C12_Witness ==
    /\ call_pc = "done"
    /\ eq_ret = << TRUE >>
    /\ hash_ret # << >>
    /\ Has(self_body, "name")
    /\ self_body["name"] = << >>
    /\ Has(other_body, "disabled")
    /\ ~Has(self_body, "address")

\* C13: the entry parsed from the command of the entry parsed from a line is
\* equal to the entry parsed from the line.
C13_ParseRenderRoundTrip ==
    reparsed # << >>
    => /\ DnsEntryEq(reparsed[1], parsed[1])
       /\ DnsEntryEq(parsed[1], reparsed[1])

\* A round trip of C13: the line named a key twice, the entry has an empty
\* name and a disabled flag, and the command is not the line.
C13_Witness ==
    /\ call_pc = "done"
    /\ with_add
    /\ Has(parsed[1], "name")
    /\ parsed[1]["name"] = << >>
    /\ Has(parsed[1], "disabled")
    /\ Len(Split(line, SpaceSep)) = MaxTokens
    /\ Split(line, SpaceSep)[1] = KeyBytes["name"] \o EqualsSep \o ValA
    /\ cmd[1] # line
    /\ reparsed[1] = parsed[1]

\* C14: an entry is approved only when at least half of the devices hold it
\* (2 * votes >= total_voters), and skipped as held by all only when all
\* devices hold it (votes = total_voters).
C14_MajoritySoundUnderRounding ==
    verdict # << >>
    => /\ verdict[2] = "approved" => 2 * entry_votes >= entry_voters
       /\ verdict[2] = "skipped" => entry_votes = entry_voters

=============================================================================
